---- MODULE Spec2Model ----
(***************************************************************************)
(* The wasm export handler of the indexer: `process` (one batch of matched *)
(* contract and state events against the database), the in-memory code ID  *)
(* resolver `getCodeId`, and the state event allowlist.                     *)
(*                                                                         *)
(* Tables are modelled by their primary keys: Block and Contract are       *)
(* partial functions (height -> row, address -> row); WasmStateEvent is a  *)
(* bag of rows, so that a row inserted twice would be seen; the State      *)
(* singleton is a sequence holding zero or one row.                        *)
(***************************************************************************)
EXTENDS Integers, Sequences, FiniteSets, Bags, TLC

\* ---------------------------------------------------------------- bounds
\* Block heights of the modelled chain are 1..MaxHeight.
MaxHeight == 2
\* Longest batch handed to one process call.
MaxBatch == 2
\* Total number of events handed to process over one behaviour.
MaxEvents == 2
\* Rules in the allowlist of a chain, where the rules are drawn.
MaxRules == 2

\* ------------------------------------------------------- program constants
\* retriesMax of every retry(...) call of the handler.
RetriesMax == 3

\* ---------------------------------------------------------------- universe
Heights == 1..MaxHeight
Addrs == {"a1"}
\* Names of storage keys, and their database form (comma-joined bytes).
StateKeyNames == {"contract_info", "balances"}
DbKeyForKeys(name) ==
    CASE name = "contract_info" -> "99,111,110,116,114,97,99,116,95,105,110,102,111"
      [] name = "balances" -> "98,97,108,97,110,99,101,115"
      [] OTHER -> "0"
Keys == {DbKeyForKeys(n) : n \in StateKeyNames}
\* Code IDs carried by contract events (always nonzero, see match).
CodeIds == {1, 2}
\* The time of a block is a property of the chain: every record of one
\* height carries the same time, and later blocks have later times.
BlockTimeUnixMs(h) == 1000 * h

Max(a, b) == IF a >= b THEN a ELSE b

\* ------------------------------------------------------------------ events
\* What match emits for a contract info write (`admin`, `creator` and
\* `label` always travel together; `label` stands for the three).
ContractEvents ==
    { [type |-> "contract", address |-> a, codeId |-> c, label |-> "L",
       blockHeight |-> h, blockTimeUnixMs |-> BlockTimeUnixMs(h)] :
        a \in Addrs, c \in CodeIds, h \in Heights }

\* What match emits for a state write or a state delete.
StateEvents ==
    { [type |-> "state", codeId |-> 0, contractAddress |-> a, blockHeight |-> h,
       blockTimeUnixMs |-> BlockTimeUnixMs(h), key |-> k,
       value |-> IF d THEN "" ELSE "7", valueJson |-> IF d THEN "null" ELSE "7",
       delete |-> d] :
        a \in Addrs, h \in Heights, k \in Keys, d \in BOOLEAN }

Events == ContractEvents \cup StateEvents

\* The id match gives an event.  The exporter keeps one event per id in a
\* batch, and calls process with at least one event.
EventId(e) ==
    IF e.type = "contract"
    THEN <<"contract", e.blockHeight, e.address, "">>
    ELSE <<"state", e.blockHeight, e.contractAddress, e.key>>

SeqsUpTo(S, n) == UNION { [1..m -> S] : m \in 1..n }

\* The batches of at most n events.
BatchesUpTo(n) ==
    { b \in SeqsUpTo(Events, IF n < MaxBatch THEN n ELSE MaxBatch) :
        \A i, j \in 1..Len(b) : i # j => EventId(b[i]) # EventId(b[j]) }

Batches == BatchesUpTo(MaxBatch)

BatchMaxHeight(b) ==
    IF Len(b) = 0 THEN 0
    ELSE CHOOSE h \in Heights :
           /\ \E i \in 1..Len(b) : b[i].blockHeight = h
           /\ \A i \in 1..Len(b) : b[i].blockHeight <= h

\* ------------------------------------------------------------------- match
DEFAULT_CONTRACT_BYTE_LENGTH == 32

IsTerraClassic(chainId) == chainId = "columbus-5"
CONTRACT_KEY_PREFIX(chainId) == IF IsTerraClassic(chainId) THEN 4 ELSE 2
CONTRACT_STORE_PREFIX(chainId) == IF IsTerraClassic(chainId) THEN 5 ELSE 3

\* The bytes of the address a1, and toBech32 on them.
AddressBytes == [i \in 1..DEFAULT_CONTRACT_BYTE_LENGTH |-> 1]
ToBech32(bytes) == IF bytes = AddressBytes THEN "a1" ELSE "a0"

\* The bytes of a storage key name.
KeyBytes(name) ==
    CASE name = "contract_info" -> <<99, 111, 110, 116, 114, 97, 99, 116, 95, 105, 110, 102, 111>>
      [] name = "balances" -> <<98, 97, 108, 97, 110, 99, 101, 115>>
      [] OTHER -> << >>

\* bytes.join(',')
RECURSIVE JoinBytes(_)
JoinBytes(bytes) ==
    IF Len(bytes) = 0 THEN ""
    ELSE IF Len(bytes) = 1 THEN ToString(bytes[1])
    ELSE ToString(bytes[1]) \o "," \o JoinBytes(Tail(bytes))

\* The values a record carries, in base64: none, the text 7, the text x,
\* the protobuf of a ContractInfo with code ID 1 and label L, the same with
\* code ID 2, and the same with no code ID.
TraceValues == {"", "Nw==", "eA==", "CAEiAUw=", "CAIiAUw=", "IgFM"}

\* fromUtf8(fromBase64(value))
FromBase64Utf8(value) ==
    CASE value = "Nw==" -> "7"
      [] value = "eA==" -> "x"
      [] value = "CAEiAUw=" -> "\\b\\u0001\"\\u0001L"
      [] value = "CAIiAUw=" -> "\\b\\u0002\"\\u0001L"
      [] value = "IgFM" -> "\"\\u0001L"
      [] OTHER -> ""

\* JSON.parse(text), the JSON as text; it throws on what is not JSON.
JsonParse(text) ==
    IF text = "7" THEN [threw |-> FALSE, json |-> "7"]
    ELSE [threw |-> TRUE, json |-> "null"]

\* ContractInfo.decode(fromBase64(value)); it throws on what is no message.
DecodeContractInfo(value) ==
    CASE value = "CAEiAUw=" -> [threw |-> FALSE, codeId |-> 1, label |-> "L"]
      [] value = "CAIiAUw=" -> [threw |-> FALSE, codeId |-> 2, label |-> "L"]
      [] value = "IgFM" -> [threw |-> FALSE, codeId |-> 0, label |-> "L"]
      [] value = "" -> [threw |-> FALSE, codeId |-> 0, label |-> ""]
      [] OTHER -> [threw |-> TRUE, codeId |-> 0, label |-> ""]

\* What match returns for a record it does not take.
NoMatch == [type |-> "none"]

\* match(trace), for the handler of the chain chainId.  trace.key is the key
\* as bytes, trace.value is base64.  On Terra Classic a key of one byte has
\* no length byte: the length is undefined, no key is "too short" for it,
\* the address is made of no bytes and the key is all of keyData.
Match(chainId, trace) ==
    LET keyData == trace.key
        noLength == IsTerraClassic(chainId) /\ Len(keyData) < 2
        contractByteLength ==
            IF IsTerraClassic(chainId) THEN keyData[2] ELSE DEFAULT_CONTRACT_BYTE_LENGTH
        contractAddressOffset == IF IsTerraClassic(chainId) THEN 2 ELSE 1
        contractAddress ==
            ToBech32(IF noLength THEN << >>
                     ELSE SubSeq(keyData, contractAddressOffset + 1,
                                 contractAddressOffset + contractByteLength))
        key == JoinBytes(IF noLength THEN keyData
                         ELSE SubSeq(keyData,
                                     contractAddressOffset + contractByteLength + 1,
                                     Len(keyData)))
        contractInfo == DecodeContractInfo(trace.value)
        value == IF trace.value = "" THEN "" ELSE FromBase64Utf8(trace.value)
        valueJson == IF trace.operation # "delete" /\ value # ""
                     THEN JsonParse(value).json
                     ELSE "null"
    IN  IF Len(keyData) = 0 THEN NoMatch
        ELSE IF /\ keyData[1] # CONTRACT_STORE_PREFIX(chainId)
                /\ keyData[1] # CONTRACT_KEY_PREFIX(chainId) THEN NoMatch
        ELSE IF /\ ~noLength
                /\ Len(keyData) < contractAddressOffset + contractByteLength THEN NoMatch
        ELSE IF trace.operation = "write" /\ keyData[1] = CONTRACT_KEY_PREFIX(chainId)
        THEN IF contractInfo.threw THEN NoMatch
             ELSE IF contractInfo.codeId = 0 THEN NoMatch
             ELSE [type |-> "contract", address |-> contractAddress,
                   codeId |-> contractInfo.codeId, label |-> contractInfo.label,
                   blockHeight |-> trace.blockHeight,
                   blockTimeUnixMs |-> trace.blockTimeUnixMs]
        ELSE [type |-> "state", codeId |-> 0, contractAddress |-> contractAddress,
              blockHeight |-> trace.blockHeight,
              blockTimeUnixMs |-> trace.blockTimeUnixMs, key |-> key,
              value |-> value, valueJson |-> valueJson,
              delete |-> (trace.operation = "delete")]


\* ------------------------------------------------------------ configuration
\* CONTRACT_STATE_EVENT_KEY_ALLOWLIST: the rules of a chain, <<>> for a chain
\* the table does not name.  osmosis-1 is abridged to two of its six names.
CONTRACT_STATE_EVENT_KEY_ALLOWLIST(chain) ==
    CASE chain = "kaiyo-1" ->
           << [codeIdsKeys |-> {"kujira-fin"}, stateKeys |-> {"contract_info"}] >>
      [] chain = "osmosis-1" ->
           << [codeIdsKeys |-> {"levana-finance", "cl-vault"},
               stateKeys |-> {"contract_info"}] >>
      [] OTHER -> << >>

\* stateEventAllowlist: the chain's rules with their state keys in database form.
StateEventAllowlist(chain) ==
    LET rules == CONTRACT_STATE_EVENT_KEY_ALLOWLIST(chain)
    IN  [i \in 1..Len(rules) |->
            [codeIdsKeys |-> rules[i].codeIdsKeys,
             stateKeys |-> {DbKeyForKeys(n) : n \in rules[i].stateKeys}]]

\* The code key names of the table, and the code IDs the wasm code registry
\* holds for each.
CodeKeyNames == {"kujira-fin", "levana-finance", "cl-vault"}
WasmCodes == [n \in CodeKeyNames |-> IF n \in {"kujira-fin", "cl-vault"} THEN {1} ELSE {}]

\* WasmCodeService.findWasmCodeIdsByKeys(...names)
FindWasmCodeIdsByKeys(registry, names) ==
    UNION { registry[n] : n \in names \cap DOMAIN registry }

\* ------------------------------------------------------------------ tables
\* Sequelize bulkCreate on a table keyed by one column: each row is inserted,
\* or, when its key is taken, the columns of `upd` are overwritten
\* (updateOnDuplicate); `upd` = {} is ignoreDuplicates.
MergeRow(old, new, upd) ==
    [f \in DOMAIN old |-> IF f \in upd THEN new[f] ELSE old[f]]

UpsertRow(tbl, pk, row, upd) ==
    IF pk \in DOMAIN tbl
    THEN [tbl EXCEPT ![pk] = MergeRow(tbl[pk], row, upd)]
    ELSE [x \in DOMAIN tbl \cup {pk} |-> IF x = pk THEN row ELSE tbl[x]]

RECURSIVE ContractBulkCreate(_, _, _)
ContractBulkCreate(tbl, rows, upd) ==
    IF Len(rows) = 0 THEN tbl
    ELSE ContractBulkCreate(UpsertRow(tbl, Head(rows).address, Head(rows), upd),
                            Tail(rows), upd)

\* Block.createMany: a row per height; an existing row is left as it is.
RECURSIVE BlockCreateMany(_, _)
BlockCreateMany(tbl, rows) ==
    IF Len(rows) = 0 THEN tbl
    ELSE BlockCreateMany(UpsertRow(tbl, Head(rows).height, Head(rows), {}),
                         Tail(rows))

\* The unique index of WasmStateEvent.
SameEventKey(r, e) ==
    /\ r.blockHeight = e.blockHeight
    /\ r.contractAddress = e.contractAddress
    /\ r.key = e.key

\* The columns of a WasmStateEvent row, from a parsed state event.
EventRow(e) ==
    [blockHeight |-> e.blockHeight, contractAddress |-> e.contractAddress,
     key |-> e.key, value |-> e.value, valueJson |-> e.valueJson,
     delete |-> e.delete, blockTimeUnixMs |-> e.blockTimeUnixMs]

\* A bulkCreate with no conflict clause on a table with no unique index.
InsertEventNoConflict(bag, e, upd) == bag (+) SetToBag({EventRow(e)})

\* A bulkCreate that leaves a row it collides with as it is.
InsertEventKeepsOld(bag, e, upd) ==
    IF \E r \in BagToSet(bag) : SameEventKey(r, e) THEN bag
    ELSE bag (+) SetToBag({EventRow(e)})

\* One row of WasmStateEvent.bulkCreate(..., {updateOnDuplicate: upd}).
InsertEvent(bag, e, upd) ==
    LET dups == {r \in BagToSet(bag) : SameEventKey(r, e)}
    IN  IF dups = {} THEN bag (+) SetToBag({EventRow(e)})
        ELSE LET old == CHOOSE r \in dups : TRUE
                 new == MergeRow(old, EventRow(e), upd)
                 rest == [r \in BagToSet(bag) \ {old} |-> bag[r]]
             IN  rest (+) [r \in {new} |-> bag[old]]

RECURSIVE WasmStateEventBulkCreate(_, _, _)
WasmStateEventBulkCreate(bag, rows, upd) ==
    IF Len(rows) = 0 THEN bag
    ELSE WasmStateEventBulkCreate(InsertEvent(bag, Head(rows), upd), Tail(rows), upd)

\* ---------------------------------------------------------------- resolver
\* What the node answers to getContract(address).
NodeAnswers ==
    { [kind |-> "error", codeId |-> 0], [kind |-> "notfound", codeId |-> 0] }
        \cup { [kind |-> "found", codeId |-> c] : c \in CodeIds }

\* loadIntoCache: one attempt.  A client that is not connected, and every
\* error other than "not found", is thrown; "not found" leaves 0.
LoadIntoCache(answer) ==
    CASE answer.kind = "found" -> [threw |-> FALSE, codeId |-> answer.codeId]
      [] answer.kind = "notfound" -> [threw |-> FALSE, codeId |-> 0]
      [] OTHER -> [threw |-> TRUE, codeId |-> 0]

\* retry(fn): fn is attempted until it returns, at most `left` times.
RECURSIVE Retry(_, _)
Retry(answer, left) ==
    LET r == LoadIntoCache(answer)
    IN  IF ~r.threw THEN r
        ELSE IF left <= 1 THEN r
        ELSE Retry(answer, left - 1)

\* A getCodeId that caches 0 whatever the node said.
GetCodeIdCachesZero(cache, answer, address) ==
    IF address \in DOMAIN cache
    THEN [cache |-> cache, codeId |-> cache[address], threw |-> FALSE]
    ELSE LET r == Retry(answer, RetriesMax)
         IN  [cache |-> [x \in DOMAIN cache \cup {address} |->
                            IF x = address THEN 0 ELSE cache[x]],
              codeId |-> IF r.threw THEN 0 ELSE r.codeId, threw |-> FALSE]

\* A getCodeId with no catch around the retries: what the last attempt threw
\* is thrown on, and nothing is cached.
GetCodeIdRethrows(cache, answer, address) ==
    IF address \in DOMAIN cache
    THEN [cache |-> cache, codeId |-> cache[address], threw |-> FALSE]
    ELSE LET r == Retry(answer, RetriesMax)
         IN  IF r.threw THEN [cache |-> cache, codeId |-> 0, threw |-> TRUE]
             ELSE [cache |-> [x \in DOMAIN cache \cup {address} |->
                                 IF x = address THEN r.codeId ELSE cache[x]],
                   codeId |-> r.codeId, threw |-> FALSE]

\* getCodeId: the cached entry if there is one; else the node is asked, and
\* what it says (0 when every attempt threw) is cached and returned.  What
\* the retries throw is caught: getCodeId itself throws nothing.
GetCodeId(cache, answer, address) ==
    IF address \in DOMAIN cache
    THEN [cache |-> cache, codeId |-> cache[address], threw |-> FALSE]
    ELSE LET r == Retry(answer, RetriesMax)
             c == IF r.threw THEN 0 ELSE r.codeId
         IN  [cache |-> [x \in DOMAIN cache \cup {address} |->
                            IF x = address THEN c ELSE cache[x]],
              codeId |-> c, threw |-> FALSE]

\* ----------------------------------------------------------------- process
\* Helpers on sequences.
RECURSIVE SeqFilter(_, _)
SeqFilter(s, keep) ==
    IF Len(s) = 0 THEN << >>
    ELSE IF Head(s) \in keep THEN <<Head(s)>> \o SeqFilter(Tail(s), keep)
    ELSE SeqFilter(Tail(s), keep)

Range(s) == { s[i] : i \in 1..Len(s) }

\* events.flatMap(event => event.type === type ? event.data : [])
OfType(events, type) == SeqFilter(events, {e \in Range(events) : e.type = type})

\* [...new Set(s.map(f))]: the distinct values, in order of first appearance.
RECURSIVE Distinct(_)
Distinct(s) ==
    IF Len(s) = 0 THEN << >>
    ELSE LET front == Distinct(SubSeq(s, 1, Len(s) - 1))
             last == s[Len(s)]
         IN  IF last \in Range(front) THEN front ELSE Append(front, last)

\* s.find(pred): the first element of s that is in `hits`.
Find(s, hits) == s[CHOOSE i \in 1..Len(s) :
                       s[i] \in hits /\ \A j \in 1..(i - 1) : s[j] \notin hits]

\* The state of one process call: the tables and the cache as the call has
\* left them so far, the locals of the function, and for the record the
\* tables as they were when the call began (`before`), the statements
\* executed (`trace`) and the records the batch was matched from (`traces`,
\* when the batch came through match).
StartCall(db, cfg, node, events) ==
    [before |-> db,
     blocks |-> db.blocks, contracts |-> db.contracts,
     wasmStateEvents |-> db.wasmStateEvents, state |-> db.state,
     codeIdCache |-> db.codeIdCache,
     stateEventAllowlist |-> cfg.stateEventAllowlist, wasmCodes |-> cfg.wasmCodes,
     sendWebhooks |-> cfg.sendWebhooks, node |-> node,
     events |-> events, contractEvents |-> << >>, stateEvents |-> << >>,
     stateRead |-> << >>, uniqueContracts |-> << >>, found |-> << >>,
     toGetCodeId |-> << >>, codeIds |-> << >>, exportedEvents |-> << >>,
     transformInput |-> << >>, webhooks |-> << >>, tracker |-> << >>,
     status |-> "run", trace |-> << >>, traces |-> << >>]

\* Block.createMany(...): one row per distinct height, with the time of the
\* first event of that height.
SaveBlocks(c) ==
    LET heights == Distinct([i \in 1..Len(c.events) |-> c.events[i].blockHeight])
        rows == [i \in 1..Len(heights) |->
                   [height |-> heights[i],
                    timeUnixMs |->
                        Find(c.events, {e \in Range(c.events) :
                                           e.blockHeight = heights[i]}).blockTimeUnixMs]]
    IN  [c EXCEPT !.blocks = BlockCreateMany(c.blocks, rows)]

\* The Contract row of a contract event.
ContractRowOfEvent(e) ==
    [address |-> e.address, codeId |-> e.codeId, label |-> e.label,
     instantiatedAtBlockHeight |-> e.blockHeight,
     instantiatedAtBlockTimeUnixMs |-> e.blockTimeUnixMs]

\* An upsert of the contract events that updates the instantiation block too.
ExportContractsUpdatesAll(c) ==
    LET contractEvents == OfType(c.events, "contract")
        rows == [i \in 1..Len(contractEvents) |-> ContractRowOfEvent(contractEvents[i])]
    IN  [c EXCEPT !.contractEvents = contractEvents,
                  !.contracts = IF Len(contractEvents) > 0
                                THEN ContractBulkCreate(c.contracts, rows,
                                         {"codeId", "label",
                                          "instantiatedAtBlockHeight",
                                          "instantiatedAtBlockTimeUnixMs"})
                                ELSE c.contracts]

\* Export contracts: the contract events are upserted, updating codeId,
\* admin, creator and label of a row that exists.
ExportContracts(c) ==
    LET contractEvents == OfType(c.events, "contract")
        rows == [i \in 1..Len(contractEvents) |-> ContractRowOfEvent(contractEvents[i])]
    IN  [c EXCEPT !.contractEvents = contractEvents,
                  !.contracts = IF Len(contractEvents) > 0
                                THEN ContractBulkCreate(c.contracts, rows,
                                                        {"codeId", "label"})
                                ELSE c.contracts]

\* A tracker job that is queued only by a batch with state events.
QueueTrackerNeedsStateEvents(c) ==
    LET stateEvents == OfType(c.events, "state")
    IN  [c EXCEPT !.stateEvents = stateEvents,
                  !.tracker = IF Len(c.contractEvents) > 0 /\ Len(stateEvents) > 0
                              THEN << [height |-> c.contractEvents[1].blockHeight,
                                       contractEvents |-> c.contractEvents,
                                       stateEventUpdates |-> stateEvents] >>
                              ELSE << >>,
                  !.status = IF Len(stateEvents) = 0 THEN "returned" ELSE "run"]

\* The wasm code tracker job, and the early return of a batch with no state
\* events.
QueueTracker(c) ==
    LET stateEvents == OfType(c.events, "state")
    IN  [c EXCEPT !.stateEvents = stateEvents,
                  !.tracker = IF Len(c.contractEvents) > 0
                              THEN << [height |-> c.contractEvents[1].blockHeight,
                                       contractEvents |-> c.contractEvents,
                                       stateEventUpdates |-> stateEvents] >>
                              ELSE << >>,
                  !.status = IF Len(stateEvents) = 0 THEN "returned" ELSE "run"]

\* State.getSingleton(), and the throw when there is no row.
GetState(c) ==
    [c EXCEPT !.stateRead = c.state,
              !.uniqueContracts =
                  Distinct([i \in 1..Len(c.stateEvents) |->
                               c.stateEvents[i].contractAddress]),
              !.status = IF Len(c.state) = 0 THEN "error" ELSE "run"]

\* Contract.findAll({where: {address: uniqueContracts}})
FindContracts(c) ==
    [a \in DOMAIN c.contracts \cap Range(c.uniqueContracts) |-> c.contracts[a]]

\* The Contract row made for an address from the first state event of that
\* address in the batch.
ContractRowOfState(address, stateEvents) ==
    LET event == Find(stateEvents, {e \in Range(stateEvents) :
                                       e.contractAddress = address})
    IN  [address |-> address, codeId |-> 0, label |-> "",
         instantiatedAtBlockHeight |-> event.blockHeight,
         instantiatedAtBlockTimeUnixMs |-> event.blockTimeUnixMs]

\* An existence back-fill that updates the code ID of the rows it meets.
EnsureContractsOverwrites(c) ==
    LET rows == [i \in 1..Len(c.uniqueContracts) |->
                   ContractRowOfState(c.uniqueContracts[i], c.stateEvents)]
        d == [c EXCEPT !.contracts =
                           ContractBulkCreate(c.contracts, rows, {"codeId"})]
    IN  [d EXCEPT !.found = FindContracts(d)]


\* Ensure contract exists before creating events (ignoreDuplicates), then
\* read the contracts of the batch.
EnsureContracts(c) ==
    LET rows == [i \in 1..Len(c.uniqueContracts) |->
                   ContractRowOfState(c.uniqueContracts[i], c.stateEvents)]
        d == [c EXCEPT !.contracts = ContractBulkCreate(c.contracts, rows, {})]
    IN  [d EXCEPT !.found = FindContracts(d)]

\* client.getContract(address): the node knows no contract at an address
\* that is not the address of a contract.
GetContract(node, address) ==
    IF address \in DOMAIN node THEN node[address]
    ELSE [kind |-> "notfound", codeId |-> 0]

\* Promise.all(contractsToGetCodeId.map(getCodeId)): the cache after the
\* lookups of the addresses `todo`, and the code ID found for each.
RECURSIVE GetCodeIds(_, _, _, _)
GetCodeIds(cache, node, todo, got) ==
    IF todo = {} THEN [cache |-> cache, codeIds |-> got]
    ELSE LET a == CHOOSE x \in todo : TRUE
             r == GetCodeId(cache, GetContract(node, a), a)
         IN  GetCodeIds(r.cache, node, todo \ {a},
                        [x \in DOMAIN got \cup {a} |->
                            IF x = a THEN r.codeId ELSE got[x]])

\* Try to retrieve code IDs for contracts with 0 or -1 code IDs.
ResolveCodeIds(c) ==
    LET todo == {a \in DOMAIN c.found : c.found[a].codeId <= 0}
        r == GetCodeIds(c.codeIdCache, c.node, todo, << >>)
    IN  [c EXCEPT !.toGetCodeId = todo, !.codeIdCache = r.cache,
                  !.codeIds = r.codeIds]

\* A back-fill that does not read the contracts again after the update.
BackfillCodeIdsNoReread(c) ==
    IF c.toGetCodeId = {} THEN c
    ELSE LET hit == {a \in c.toGetCodeId : c.codeIds[a] > 0}
             order == SeqFilter(c.uniqueContracts, hit)
             rows == [i \in 1..Len(order) |->
                        [c.found[order[i]] EXCEPT !.codeId = c.codeIds[order[i]]]]
         IN  [c EXCEPT !.contracts =
                           ContractBulkCreate(c.contracts, rows, {"codeId"})]

\* Update code IDs for contracts with missing code IDs: only the rows whose
\* resolved code ID is > 0, only the codeId column; then read again.
BackfillCodeIds(c) ==
    IF c.toGetCodeId = {} THEN c
    ELSE LET hit == {a \in c.toGetCodeId : c.codeIds[a] > 0}
             order == SeqFilter(c.uniqueContracts, hit)
             rows == [i \in 1..Len(order) |->
                        [c.found[order[i]] EXCEPT !.codeId = c.codeIds[order[i]]]]
             d == [c EXCEPT !.contracts =
                                ContractBulkCreate(c.contracts, rows, {"codeId"})]
         IN  [d EXCEPT !.found = FindContracts(d)]

\* The rules with their code IDs resolved, without those that resolve to none.
ResolvedAllowlist(rules, registry) ==
    LET all == [i \in 1..Len(rules) |->
                  [stateKeys |-> rules[i].stateKeys,
                   codeIds |-> FindWasmCodeIdsByKeys(registry, rules[i].codeIdsKeys)]]
    IN  SeqFilter(all, {r \in Range(all) : r.codeIds # {}})

\* A predicate that keeps an event when some rule of its code ID has its key.
KeepEventAnyRule(allowlist, codeId, key) ==
    \/ codeId = 0
    \/ ~ \E i \in 1..Len(allowlist) : codeId \in allowlist[i].codeIds
    \/ \E i \in 1..Len(allowlist) :
           codeId \in allowlist[i].codeIds /\ key \in allowlist[i].stateKeys

\* The filter predicate: `codeId` is the code ID of the event's contract, 0
\* when the contract is not among those read.
KeepEvent(allowlist, codeId, key) ==
    \/ codeId = 0
    \/ ~ \E i \in 1..Len(allowlist) :
            codeId \in allowlist[i].codeIds /\ key \notin allowlist[i].stateKeys

\* Keep events for contracts that do not exist in the allowlist or whose
\* state keys are in the allowlist.
FilterEvents(allowlist, found, stateEvents) ==
    IF Len(allowlist) = 0 THEN stateEvents
    ELSE SeqFilter(stateEvents,
                   {e \in Range(stateEvents) :
                       KeepEvent(allowlist,
                                 IF e.contractAddress \in DOMAIN found
                                 THEN found[e.contractAddress].codeId ELSE 0,
                                 e.key)})

ApplyAllowlist(c) ==
    [c EXCEPT !.stateEvents =
                  FilterEvents(ResolvedAllowlist(c.stateEventAllowlist, c.wasmCodes),
                               c.found, c.stateEvents)]

\* WasmStateEvent.bulkCreate(stateEvents, {updateOnDuplicate: [...]})
InsertEvents(c) ==
    [c EXCEPT !.wasmStateEvents =
                  WasmStateEventBulkCreate(c.wasmStateEvents, c.stateEvents,
                                           {"value", "valueJson", "delete"}),
              !.exportedEvents =
                  [i \in 1..Len(c.stateEvents) |-> EventRow(c.stateEvents[i])]]

\* A join that hands the parsed events of contracts with no code ID on.
JoinContractsKeepsZero(c) ==
    LET known == DOMAIN c.found \cup DOMAIN c.contracts
        codeOf(a) == IF a \in DOMAIN c.found THEN c.found[a].codeId
                     ELSE IF a \in DOMAIN c.contracts THEN c.contracts[a].codeId
                     ELSE 0
    IN  [c EXCEPT !.stateEvents =
                      [i \in 1..Len(c.stateEvents) |->
                          [c.stateEvents[i] EXCEPT
                              !.codeId = codeOf(c.stateEvents[i].contractAddress)]]]

\* Add contract to events, add code ID to parsed events, and remove the
\* events that have no contract and the parsed events that have no code ID.
JoinContracts(c) ==
    LET known == DOMAIN c.found \cup DOMAIN c.contracts
        codeOf(a) == IF a \in DOMAIN c.found THEN c.found[a].codeId
                     ELSE IF a \in DOMAIN c.contracts THEN c.contracts[a].codeId
                     ELSE 0
        parsed == [i \in 1..Len(c.stateEvents) |->
                     IF c.stateEvents[i].contractAddress \in known
                     THEN [c.stateEvents[i] EXCEPT
                              !.codeId = codeOf(c.stateEvents[i].contractAddress)]
                     ELSE c.stateEvents[i]]
    IN  [c EXCEPT !.exportedEvents =
                      SeqFilter(c.exportedEvents,
                                {e \in Range(c.exportedEvents) :
                                    e.contractAddress \in known}),
                  !.stateEvents =
                      SeqFilter(parsed, {e \in Range(parsed) : e.codeId > 0})]

\* transformParsedStateEvents(stateEvents)
Transform(c) == [c EXCEPT !.transformInput = c.stateEvents]

\* A filter that leaves out the events of the block of the watermark.
QueueWebhooksStrict(c) ==
    IF ~c.sendWebhooks THEN c
    ELSE [c EXCEPT !.webhooks =
                       SeqFilter(c.exportedEvents,
                                 {e \in Range(c.exportedEvents) :
                                     e.blockHeight >
                                         c.stateRead[1].lastWasmBlockHeightExported})]

\* Queue webhooks as needed: the exported events at or above the
\* lastWasmBlockHeightExported read before the export.
QueueWebhooks(c) ==
    IF ~c.sendWebhooks THEN c
    ELSE [c EXCEPT !.webhooks =
                       SeqFilter(c.exportedEvents,
                                 {e \in Range(c.exportedEvents) :
                                     e.blockHeight >=
                                         c.stateRead[1].lastWasmBlockHeightExported})]

\* An update that stores the batch's value without GREATEST.
GreatestOverwrites(column, value) == value

\* GREATEST(column, value)
Greatest(column, value) == Max(column, value)

\* Store last block height exported: the height and time of the last event
\* of the batch sorted by height.
UpdateState(c) ==
    LET h == BatchMaxHeight(c.events)
        lastEvent == c.events[CHOOSE i \in 1..Len(c.events) :
                                  /\ c.events[i].blockHeight = h
                                  /\ \A j \in (i + 1)..Len(c.events) :
                                         c.events[j].blockHeight # h]
        row == c.state[1]
    IN  [c EXCEPT !.state =
            << [lastWasmBlockHeightExported |->
                    Greatest(row.lastWasmBlockHeightExported, lastEvent.blockHeight),
                latestBlockHeight |->
                    Greatest(row.latestBlockHeight, lastEvent.blockHeight),
                latestBlockTimeUnixMs |->
                    Greatest(row.latestBlockTimeUnixMs, lastEvent.blockTimeUnixMs)] >>]

\* process with the State update moved up, before the transformer engine.
ProcessStepsStateEarly ==
    << "saveBlocks", "exportContracts", "queueTracker", "getState",
       "ensureContracts", "resolveCodeIds", "backfillCodeIds", "applyAllowlist",
       "insertEvents", "joinContracts", "updateState", "transform",
       "queueWebhooks" >>

\* The statements of process, in the order of the function.
ProcessSteps ==
    << "saveBlocks", "exportContracts", "queueTracker", "getState",
       "ensureContracts", "resolveCodeIds", "backfillCodeIds", "applyAllowlist",
       "insertEvents", "joinContracts", "transform", "queueWebhooks",
       "updateState" >>

Step(name, c) ==
    CASE name = "saveBlocks" -> SaveBlocks(c)
      [] name = "exportContracts" -> ExportContracts(c)
      [] name = "queueTracker" -> QueueTracker(c)
      [] name = "getState" -> GetState(c)
      [] name = "ensureContracts" -> EnsureContracts(c)
      [] name = "resolveCodeIds" -> ResolveCodeIds(c)
      [] name = "backfillCodeIds" -> BackfillCodeIds(c)
      [] name = "applyAllowlist" -> ApplyAllowlist(c)
      [] name = "insertEvents" -> InsertEvents(c)
      [] name = "joinContracts" -> JoinContracts(c)
      [] name = "transform" -> Transform(c)
      [] name = "queueWebhooks" -> QueueWebhooks(c)
      [] name = "updateState" -> UpdateState(c)
      [] OTHER -> c

\* The statements that call the database, the transformer engine or the
\* webhook queue, and so may throw (after the retries of those that are
\* retried).  A statement that throws has written nothing.
Throwing ==
    { "saveBlocks", "exportContracts", "ensureContracts", "backfillCodeIds",
      "insertEvents", "transform", "queueWebhooks", "updateState" }

FailPoints == {0} \cup { i \in 1..Len(ProcessSteps) : ProcessSteps[i] \in Throwing }

\* process(events) run from statement i on; statement `failAt` throws (0: none).
RECURSIVE RunFrom(_, _, _)
RunFrom(c, i, failAt) ==
    IF c.status # "run" THEN c
    ELSE IF i > Len(ProcessSteps) THEN [c EXCEPT !.status = "ok"]
    ELSE IF i = failAt THEN [c EXCEPT !.status = "error"]
    ELSE RunFrom([Step(ProcessSteps[i], c) EXCEPT
                     !.trace = Append(c.trace, ProcessSteps[i])],
                 i + 1, failAt)

RunProcess(db, cfg, node, events, failAt) ==
    RunFrom(StartCall(db, cfg, node, events), 1, failAt)

\* ------------------------------------------------------------ state machine
VARIABLES
    blocks,           \* Block rows: height -> row
    contracts,        \* Contract rows: address -> row
    wasmStateEvents,  \* WasmStateEvent rows: a bag
    state,            \* the State singleton: << >> or << row >>
    codeIdCache,      \* the LRU cache of getCodeId: address -> code ID
    node,             \* what the node answers for each address now
    config,           \* the handler: its chain's allowlist, sendWebhooks, and
                      \* the wasm code registry it reads
    ingested,         \* number of events handed to process so far
    last              \* the last process call, as it ended

vars == <<blocks, contracts, wasmStateEvents, state, codeIdCache, node, config,
          ingested, last>>

Db == [blocks |-> blocks, contracts |-> contracts,
       wasmStateEvents |-> wasmStateEvents, state |-> state,
       codeIdCache |-> codeIdCache]

\* What `wasm` builds a handler from: a chain the table names and one it
\* does not, with webhooks on or off.
ChainIds == {"kaiyo-1", "juno-1"}
Configs ==
    { [chainId |-> chain, stateEventAllowlist |-> StateEventAllowlist(chain),
       wasmCodes |-> WasmCodes, sendWebhooks |-> w] :
        chain \in ChainIds, w \in BOOLEAN }

InitialState ==
    [lastWasmBlockHeightExported |-> 0, latestBlockHeight |-> 0,
     latestBlockTimeUnixMs |-> 0]

NoCall == [status |-> "none"]

Init ==
    /\ blocks = << >>
    /\ contracts = << >>
    /\ wasmStateEvents = EmptyBag
    /\ state \in {<< >>, <<InitialState>>}
    /\ codeIdCache = << >>
    /\ node \in [Addrs -> NodeAnswers]
    /\ config \in Configs
    /\ ingested = 0
    /\ last = NoCall

\* process(events): the whole call, to its return or to its throw.
Process(events, failAt) ==
    /\ ingested + Len(events) <= MaxEvents
    /\ \E r \in {RunProcess(Db, config, node, events, failAt)} :
           /\ blocks' = r.blocks
           /\ contracts' = r.contracts
           /\ wasmStateEvents' = r.wasmStateEvents
           /\ state' = r.state
           /\ codeIdCache' = r.codeIdCache
           /\ last' = r
    /\ ingested' = ingested + Len(events)
    /\ UNCHANGED <<node, config>>

\* The chain moves on: a contract is instantiated or migrated, the node
\* becomes reachable or stops being so.
NodeChange(address, answer) ==
    /\ ingested < MaxEvents
    /\ node[address] # answer
    /\ node' = [node EXCEPT ![address] = answer]
    /\ UNCHANGED <<blocks, contracts, wasmStateEvents, state, codeIdCache, config,
                   ingested, last>>

\* The exporter is started again: `wasm` builds a new handler with an empty
\* cache over the same database.
Restart ==
    /\ ingested < MaxEvents
    /\ codeIdCache # << >>
    /\ codeIdCache' = << >>
    /\ UNCHANGED <<blocks, contracts, wasmStateEvents, state, node, config,
                   ingested, last>>

Next ==
    \/ \E events \in BatchesUpTo(MaxEvents - ingested), failAt \in FailPoints :
           Process(events, failAt)
    \/ \E address \in Addrs, answer \in NodeAnswers : NodeChange(address, answer)
    \/ Restart

Spec == Init /\ [][Next]_vars

\* --------------------------------------------- the allowlist, rules drawn
\* The handler over any table of rules and any registry: each rule names
\* code keys and state keys as a row of CONTRACT_STATE_EVENT_KEY_ALLOWLIST
\* does, and the registry holds any code IDs for a name.
AllowlistNames == {"kujira-fin", "cl-vault"}
AllowlistRules ==
    { [codeIdsKeys |-> n, stateKeys |-> k] :
        n \in (SUBSET AllowlistNames) \ {{}}, k \in SUBSET Keys }
AllowlistRegistries == [AllowlistNames -> {{}, {1}, {1, 2}}]
AllowlistConfigs ==
    { [stateEventAllowlist |-> rules, wasmCodes |-> registry, sendWebhooks |-> FALSE] :
        rules \in {<< >>} \cup SeqsUpTo(AllowlistRules, MaxRules),
        registry \in AllowlistRegistries }

\* Writes of one block.
AllowlistBatches ==
    { b \in Batches :
        \A i \in 1..Len(b) :
            /\ b[i].blockHeight = 1
            /\ b[i].type = "state" => ~b[i].delete }

InitAllowlist ==
    /\ blocks = << >>
    /\ contracts = << >>
    /\ wasmStateEvents = EmptyBag
    /\ state = <<InitialState>>
    /\ codeIdCache = << >>
    /\ node \in [Addrs -> NodeAnswers]
    /\ config \in AllowlistConfigs
    /\ ingested = 0
    /\ last = NoCall

NextAllowlist == \E events \in AllowlistBatches : Process(events, 0)

SpecAllowlist == InitAllowlist /\ [][NextAllowlist]_vars

\* ------------------------------------------- the exporter: match, then process
\* The keys of the records of a Terra Classic block, with the length byte
\* before the address: the contract info of a1, a storage key of a1, a key
\* that is shorter than the length it declares, and a key of one byte.
TerraTraceKeys ==
    { <<4, DEFAULT_CONTRACT_BYTE_LENGTH>> \o AddressBytes,
      <<5, DEFAULT_CONTRACT_BYTE_LENGTH>> \o AddressBytes \o KeyBytes("balances"),
      <<5, DEFAULT_CONTRACT_BYTE_LENGTH, 1>>,
      <<5>> }

\* The keys of the records of a block: the contract info of a1, two storage
\* keys of a1, a key of another module's prefix, and a key too short to
\* hold an address.
TraceKeys ==
    { <<2>> \o AddressBytes, <<9>> \o AddressBytes, <<3, 1, 1>> }
        \cup { <<3>> \o AddressBytes \o KeyBytes(n) : n \in StateKeyNames }
        \cup TerraTraceKeys

Traces ==
    { [key |-> k, operation |-> o, value |-> v, blockHeight |-> h,
       blockTimeUnixMs |-> BlockTimeUnixMs(h)] :
        k \in TraceKeys, o \in {"write", "delete"}, v \in TraceValues, h \in Heights }

\* The batches of at most n records.
TraceBatches(n) == SeqsUpTo(Traces, IF n < MaxBatch THEN n ELSE MaxBatch)

\* The events match returns for the records, in the order of the records.
MatchAll(chainId, traces) ==
    LET matched == [i \in 1..Len(traces) |-> Match(chainId, traces[i])]
    IN  SeqFilter(matched, Range(matched) \ {NoMatch})

\* A collapse by event ID in which the first record of an ID wins.
DedupeFirstWins(events) ==
    LET keep == {i \in 1..Len(events) :
                    \A j \in 1..(i - 1) : EventId(events[j]) # EventId(events[i])}
    IN  SeqFilter(events, {events[i] : i \in keep})

\* The batch is collapsed by event ID before process is called: of the
\* events of one ID the last one is kept.
Dedupe(events) ==
    LET keep == {i \in 1..Len(events) :
                    \A j \in (i + 1)..Len(events) :
                        EventId(events[j]) # EventId(events[i])}
    IN  SeqFilter(events, {events[i] : i \in keep})

\* The exporter hands the records of a batch to match and the events it
\* returns, if there are any, to process.
Export(traces) ==
    /\ ingested + Len(traces) <= MaxEvents
    /\ \E events \in {Dedupe(MatchAll(config.chainId, traces))} :
           /\ Len(events) > 0
           /\ \E r \in {RunProcess(Db, config, node, events, 0)} :
                  /\ blocks' = r.blocks
                  /\ contracts' = r.contracts
                  /\ wasmStateEvents' = r.wasmStateEvents
                  /\ state' = r.state
                  /\ codeIdCache' = r.codeIdCache
                  /\ last' = [r EXCEPT !.traces = traces]
    /\ ingested' = ingested + Len(traces)
    /\ UNCHANGED <<node, config>>

\* The handlers of the exporter: those of the standard chains and those of
\* Terra Classic, whose keys have other prefixes and a length byte.
MatchConfigs ==
    Configs \cup
    { [chainId |-> "columbus-5",
       stateEventAllowlist |-> StateEventAllowlist("columbus-5"),
       wasmCodes |-> WasmCodes, sendWebhooks |-> w] : w \in BOOLEAN }

InitMatch ==
    /\ blocks = << >>
    /\ contracts = << >>
    /\ wasmStateEvents = EmptyBag
    /\ state = <<InitialState>>
    /\ codeIdCache = << >>
    /\ node \in [Addrs -> NodeAnswers]
    /\ config \in MatchConfigs
    /\ ingested = 0
    /\ last = NoCall

NextMatch == \E traces \in TraceBatches(MaxEvents - ingested) : Export(traces)

SpecMatch == InitMatch /\ [][NextMatch]_vars

\* ------------------------------------------------------------------ claims
Returned(c) == c.status \in {"ok", "returned"}
Threw(c) == c.status = "error"
Watermark(st) == st[1].lastWasmBlockHeightExported

\* C1: after every process call that returns on a batch whose maximum block
\* height is H, the stored lastWasmBlockHeightExported is at least
\* max(previous value, H), whatever the batch is made of.
C1_WatermarkReachesBatchMax ==
    (Returned(last) /\ Len(last.before.state) = 1) =>
        /\ Len(state) = 1
        /\ Watermark(state) >=
               Max(Watermark(last.before.state), BatchMaxHeight(last.events))

\* C2: lastWasmBlockHeightExported, latestBlockHeight and
\* latestBlockTimeUnixMs never decrease, in any step of any behaviour.
C2_StateNeverDecreases ==
    [][ /\ Len(state') >= Len(state)
        /\ Len(state) = 1 =>
              /\ state'[1].lastWasmBlockHeightExported >=
                     state[1].lastWasmBlockHeightExported
              /\ state'[1].latestBlockHeight >= state[1].latestBlockHeight
              /\ state'[1].latestBlockTimeUnixMs >= state[1].latestBlockTimeUnixMs
      ]_vars

\* A batch below the watermark has been processed to its end.
C2_Witness ==
    /\ last.status = "ok"
    /\ BatchMaxHeight(last.events) < Watermark(last.before.state)
    /\ state = last.before.state

\* C3: when a process call throws, at whatever statement, the State row is
\* what it was before the call.
C3_ThrowLeavesState ==
    Threw(last) => state = last.before.state

\* A call has thrown after its events were inserted and transformed, on a
\* batch above the watermark.
C3_Witness ==
    /\ Threw(last)
    /\ Len(state) = 1
    /\ "transform" \in Range(last.trace)
    /\ wasmStateEvents # last.before.wasmStateEvents
    /\ BatchMaxHeight(last.events) > Watermark(state)

\* The four tables.
Tables(c) ==
    [blocks |-> c.blocks, contracts |-> c.contracts,
     wasmStateEvents |-> c.wasmStateEvents, state |-> c.state]

\* Nothing has happened since the last call ended: the tables and the cache
\* are as it left them and the node answers as it did.
JustCalled ==
    /\ last.status # "none"
    /\ Tables(Db) = Tables(last)
    /\ codeIdCache = last.codeIdCache
    /\ node = last.node

StateEventsOf(events) == OfType(events, "state")

\* C4: processing the same batch again right after it was processed, with
\* the resolver answering as before, returns again and leaves the Block,
\* Contract, WasmStateEvent and State rows as the first pass left them.
C4_SecondPassChangesNothing ==
    (Returned(last) /\ JustCalled) =>
        \E again \in {RunProcess(Db, config, node, last.events, 0)} :
            /\ again.status = last.status
            /\ Tables(again) = Tables(Db)

\* A batch with a state event has been processed a second time: its row was
\* there before the call.
C4_Witness ==
    /\ last.status = "ok"
    /\ JustCalled
    /\ last.before.wasmStateEvents # EmptyBag
    /\ \A i \in 1..Len(last.events) :
          /\ last.events[i].type = "state"
          /\ EventRow(last.events[i]) \in BagToSet(last.before.wasmStateEvents)
    /\ \E a \in DOMAIN contracts : contracts[a].codeId > 0

\* C5: when a call on a batch has thrown, at whatever statement, and the
\* batch is processed again to its end, the Block, Contract, WasmStateEvent
\* and State rows are those of one pass that did not throw, made from the
\* state the first call began in (the node answering the same).
C5_RedoEqualsOnePass ==
    (Threw(last) /\ JustCalled) =>
        \E redo \in {RunProcess(Db, config, node, last.events, 0)} :
            Returned(redo) =>
                \E once \in {RunProcess(last.before, config, node, last.events, 0)} :
                    /\ once.status = redo.status
                    /\ Tables(redo) = Tables(once)

\* A call has thrown after it inserted events, with the State row there, so
\* that the batch can be processed again to its end.
C5_Witness ==
    /\ Threw(last)
    /\ JustCalled
    /\ Len(state) = 1
    /\ wasmStateEvents # last.before.wasmStateEvents
    /\ contracts # last.before.contracts
    /\ codeIdCache # last.before.codeIdCache

\* C6: every WasmStateEvent row has a Contract row of its address that was
\* instantiated at or below the height of the event.
C6_ContractExistsBeforeEvent ==
    \A r \in BagToSet(wasmStateEvents) :
        /\ r.contractAddress \in DOMAIN contracts
        /\ contracts[r.contractAddress].instantiatedAtBlockHeight <= r.blockHeight

\* C7: no WasmStateEvent row belongs to a contract whose code ID is in the
\* code IDs of a rule of the chain while its key is not in the state keys
\* of that rule.
C7_AllowlistConfinement ==
    \A r \in BagToSet(wasmStateEvents) :
        \A i \in 1..Len(config.stateEventAllowlist) :
            ( /\ r.contractAddress \in DOMAIN contracts
              /\ contracts[r.contractAddress].codeId \in
                     FindWasmCodeIdsByKeys(config.wasmCodes,
                                           config.stateEventAllowlist[i].codeIdsKeys) )
            => r.key \in config.stateEventAllowlist[i].stateKeys

\* The state events of the batch of the last call that are of address a.
BatchStateEventsOf(a) ==
    {e \in Range(StateEventsOf(last.events)) : e.contractAddress = a}

\* The code IDs the registry of the handler holds for rule i of its chain.
RuleCodeIds(i) ==
    FindWasmCodeIdsByKeys(config.wasmCodes, config.stateEventAllowlist[i].codeIdsKeys)

\* The rows the last call inserted or updated in WasmStateEvent.
Persisted(e) == EventRow(e) \in Range(last.exportedEvents)

C9_ZeroIsResolvedAgain ==
    last.status = "ok" =>
        \A a \in last.toGetCodeId :
            ( /\ a \in DOMAIN last.before.codeIdCache
              /\ last.before.codeIdCache[a] = 0
              /\ last.node[a].kind = "found" )
            => last.contracts[a].codeId = last.node[a].codeId

\* The Contract row of a is what it was before the call but for codeId
\* (a row the call made has no label).
OnlyCodeIdTouched(a) ==
    IF a \in DOMAIN last.before.contracts
    THEN [last.contracts[a] EXCEPT !.codeId = 0] =
             [last.before.contracts[a] EXCEPT !.codeId = 0]
    ELSE last.contracts[a].label = ""

C11_WebhookFilter ==
    last.status # "none" =>
        /\ ~last.sendWebhooks => last.webhooks = << >>
        /\ \A e \in Range(last.webhooks) :
              /\ e \in Range(last.exportedEvents)
              /\ Len(last.before.state) = 1
              /\ e.blockHeight >= Watermark(last.before.state)
        /\ (last.status = "ok" /\ last.sendWebhooks) =>
              \A e \in Range(last.exportedEvents) :
                  e.blockHeight >= Watermark(last.before.state) =>
                      e \in Range(last.webhooks)

\* A block was exported in two batches: the event of the second batch is at
\* the height the watermark already had, and is queued.
C11_Witness ==
    /\ last.status = "ok"
    /\ last.sendWebhooks
    /\ Watermark(last.before.state) >= 1
    /\ \E e \in Range(last.webhooks) :
          e.blockHeight = Watermark(last.before.state)

\* The rows of a WasmStateEvent table that have the block height, contract
\* address and key of e.
RowsAt(bag, e) == {r \in BagToSet(bag) : SameEventKey(r, e)}

\* C12: no two WasmStateEvent rows share block height, contract address and
\* key; and when a call has inserted its events, each of them has exactly
\* one row, with its value, valueJson and delete, and the table has grown
\* by the events that had no row before the call and by nothing else.
C12_UniqueEvent ==
    /\ \A r \in BagToSet(wasmStateEvents) :
          /\ CopiesIn(r, wasmStateEvents) = 1
          /\ RowsAt(wasmStateEvents, r) = {r}
    /\ (last.status # "none" /\ "insertEvents" \in Range(last.trace)) =>
          /\ \A e \in Range(last.exportedEvents) :
                \E r \in RowsAt(last.wasmStateEvents, e) :
                    /\ r.value = e.value
                    /\ r.valueJson = e.valueJson
                    /\ r.delete = e.delete
          /\ BagCardinality(last.wasmStateEvents) =
                 BagCardinality(last.before.wasmStateEvents) +
                 Cardinality({e \in Range(last.exportedEvents) :
                                 RowsAt(last.before.wasmStateEvents, e) = {}})

\* An event has met a row of its block height, contract address and key
\* that had another value: the table has not grown and the row has the
\* value of the event.
C12_Witness ==
    /\ last.status = "ok"
    /\ BagCardinality(wasmStateEvents) = BagCardinality(last.before.wasmStateEvents)
    /\ \E e \in Range(last.exportedEvents) :
          /\ \E old \in RowsAt(last.before.wasmStateEvents, e) : old.delete # e.delete
          /\ e \in BagToSet(wasmStateEvents)

\* The contract events of a batch, in the order of the batch.
ContractEventsOf(events) == OfType(events, "contract")

\* C13: a call that has come to the tracker queue has queued one job if the
\* batch has a contract event and none if it has not; the job has the block
\* height of the first contract event of the batch, all the contract events
\* of the batch and all its state events, those the allowlist drops
\* included.
C13_TrackerJob ==
    (last.status # "none" /\ "queueTracker" \in Range(last.trace)) =>
        IF \E i \in 1..Len(last.events) : last.events[i].type = "contract"
        THEN /\ Len(last.tracker) = 1
             /\ last.tracker[1].height = ContractEventsOf(last.events)[1].blockHeight
             /\ last.tracker[1].contractEvents = ContractEventsOf(last.events)
             /\ last.tracker[1].stateEventUpdates = StateEventsOf(last.events)
        ELSE last.tracker = << >>

\* A batch has instantiated a contract and written a key of it that the
\* allowlist drops: the job carries the state event, the table does not.
C13_Witness ==
    /\ last.status = "ok"
    /\ Len(last.tracker) = 1
    /\ last.exportedEvents = << >>
    /\ Len(last.tracker[1].contractEvents) = 1
    /\ Len(last.tracker[1].stateEventUpdates) = 1

\* Where a statement stands in the statements the last call executed.
Positions(name) == {i \in 1..Len(last.trace) : last.trace[i] = name}

\* The last call executed x once and y once, x first.
Before(x, y) ==
    /\ Cardinality(Positions(x)) = 1
    /\ Cardinality(Positions(y)) = 1
    /\ \A i \in Positions(x), j \in Positions(y) : i < j

\* C14: a call that returned wrote the blocks, then the contracts of the
\* contract events, then the contracts of the state events and their code
\* IDs, then applied the allowlist, then inserted the events, then ran the
\* transformer engine, then queued the webhooks, and updated the State row
\* once, as its last statement; and no call has changed the State row
\* without having inserted the events and run the transformer engine first.
C14_StepOrder ==
    /\ Returned(last) =>
          /\ Before("saveBlocks", "exportContracts")
          /\ Before("exportContracts", "ensureContracts")
          /\ Before("ensureContracts", "backfillCodeIds")
          /\ Before("backfillCodeIds", "applyAllowlist")
          /\ Before("applyAllowlist", "insertEvents")
          /\ Before("insertEvents", "transform")
          /\ Before("transform", "queueWebhooks")
          /\ Before("queueWebhooks", "updateState")
          /\ last.trace[Len(last.trace)] = "updateState"
    /\ (last.status # "none" /\ last.state # last.before.state) =>
          /\ Before("insertEvents", "updateState")
          /\ Before("transform", "updateState")

\* C15: getCodeId throws nothing and returns a natural number, whatever the
\* cache holds and whatever the node answers: for an address the cache
\* holds, 0 included, the cached code ID, with the cache left as it is and
\* the node's answer of no account; for another address, 0 when the node
\* answers "not found" and when every attempt threw, and the node's code ID
\* otherwise, cached in each case.  The code IDs a call of process got are
\* those.
C15_ResolverNeverThrows ==
    /\ \A address \in Addrs, answer \in NodeAnswers :
          \E r \in {GetCodeId(codeIdCache, answer, address)} :
              /\ ~r.threw
              /\ r.codeId \in Nat
              /\ IF address \in DOMAIN codeIdCache
                 THEN r.codeId = codeIdCache[address] /\ r.cache = codeIdCache
                 ELSE /\ r.codeId = IF answer.kind = "found" THEN answer.codeId ELSE 0
                      /\ address \in DOMAIN r.cache
                      /\ r.cache[address] = r.codeId
    /\ (last.status # "none" /\ "resolveCodeIds" \in Range(last.trace)) =>
          \A a \in last.toGetCodeId :
              /\ last.codeIds[a] =
                     IF a \in DOMAIN last.before.codeIdCache
                     THEN last.before.codeIdCache[a]
                     ELSE IF last.node[a].kind = "found" THEN last.node[a].codeId
                     ELSE 0
              /\ last.codeIdCache[a] = last.codeIds[a]

\* The cache held 0 for an address whose contract the node now knows: the
\* call got 0 for it.
C15_Witness ==
    /\ last.status = "ok"
    /\ \E a \in last.toGetCodeId :
          /\ a \in DOMAIN last.before.codeIdCache
          /\ last.before.codeIdCache[a] = 0
          /\ last.node[a].kind = "found"
          /\ last.codeIds[a] = 0

\* The instantiation columns of a Contract row (the timestamp column is the
\* time column as a date).
Instantiation(row) ==
    <<row.instantiatedAtBlockHeight, row.instantiatedAtBlockTimeUnixMs>>

\* The last call as it stood when it had executed the statement `name`.
AfterStep(name) ==
    RunProcess(last.before, config, last.node, last.events,
               1 + CHOOSE i \in 1..Len(ProcessSteps) : ProcessSteps[i] = name)

\* C16: the instantiation block height and time of a Contract row never
\* change once the row is there: not from one state to the next, in any
\* behaviour, and not inside a call, from the upsert of the contract
\* events, the insert for the state events or the code ID update that made
\* or met the row to the end of the call.
C16_InstantiationWriteOnce ==
    /\ [][\A a \in DOMAIN contracts :
              /\ a \in DOMAIN contracts'
              /\ Instantiation(contracts'[a]) = Instantiation(contracts[a])]_vars
    /\ [](Returned(last) =>
              \A name \in {"exportContracts", "ensureContracts", "backfillCodeIds"} :
                  \E then \in {AfterStep(name)} :
                      \A a \in DOMAIN then.contracts :
                          Instantiation(last.contracts[a]) =
                              Instantiation(then.contracts[a]))

\* A contract event of another block has met the row of its contract: the
\* code ID of the row is that of the event, the instantiation block is not.
C16_Witness ==
    /\ Returned(last)
    /\ \E i \in 1..Len(last.events) :
          /\ last.events[i].type = "contract"
          /\ last.events[i].address \in DOMAIN last.before.contracts
          /\ last.before.contracts[last.events[i].address].codeId #
                 last.events[i].codeId
          /\ contracts[last.events[i].address].codeId = last.events[i].codeId
          /\ contracts[last.events[i].address].instantiatedAtBlockHeight #
                 last.events[i].blockHeight

\* The lowest block height of the state events of address a in the batch of
\* the last call.
EarliestHeight(a) ==
    CHOOSE h \in {e.blockHeight : e \in BatchStateEventsOf(a)} :
        \A e \in BatchStateEventsOf(a) : h <= e.blockHeight

\* C17: when a call ran to its end on a batch with state events of an
\* address that had no Contract row and has no contract event in the batch,
\* the row the call made for it had codeId 0 when it was made and has the
\* lowest block height of those state events as its instantiation block,
\* in whatever order the batch holds them.
C17_EarliestEvent ==
    last.status = "ok" =>
        \A a \in Range(last.uniqueContracts) :
            ( /\ a \notin DOMAIN last.before.contracts
              /\ \A e \in Range(ContractEventsOf(last.events)) : e.address # a )
            => /\ AfterStep("ensureContracts").contracts[a].codeId = 0
               /\ last.contracts[a].instantiatedAtBlockHeight = EarliestHeight(a)

\* The tables and the cache as a call has left them.
DbOf(c) ==
    [blocks |-> c.blocks, contracts |-> c.contracts,
     wasmStateEvents |-> c.wasmStateEvents, state |-> c.state,
     codeIdCache |-> c.codeIdCache]

HeightsOf(b) == {b[i].blockHeight : i \in 1..Len(b)}

\* process(first) and then process(second), from the tables and the cache
\* `db`, the node answering the same throughout.
RunBoth(db, first, second) ==
    RunProcess(DbOf(RunProcess(db, config, node, first, 0)), config, node, second, 0)

\* C18: from any state, two batches with no block height in common that are
\* processed one after the other, in one order and in the other, each call
\* returning, leave the same Block, Contract, WasmStateEvent and State rows.
C18_OrderIndependence ==
    \A b1, b2 \in Batches :
        ( /\ ingested + Len(b1) + Len(b2) <= MaxEvents
          /\ HeightsOf(b1) \cap HeightsOf(b2) = {}
          /\ Returned(RunProcess(Db, config, node, b1, 0))
          /\ Returned(RunProcess(Db, config, node, b2, 0)) )
        => \E x \in {RunBoth(Db, b1, b2)}, y \in {RunBoth(Db, b2, b1)} :
               (Returned(x) /\ Returned(y)) => Tables(x) = Tables(y)

\* C19: a call that ran to its end handed to the transformer engine the
\* state events of the batch that it persisted and whose Contract row has a
\* codeId > 0, each once and with that codeId, and nothing else; a state
\* event whose Contract row has codeId <= 0 was persisted and was not
\* handed over.
C19_TransformerInput ==
    last.status = "ok" =>
        LET batch == Range(StateEventsOf(last.events))
            codeOf(e) == last.contracts[e.contractAddress].codeId
        IN  /\ Range(last.transformInput) =
                   { [e EXCEPT !.codeId = codeOf(e)] :
                       e \in {x \in batch : Persisted(x) /\ codeOf(x) > 0} }
            /\ Len(last.transformInput) = Cardinality(Range(last.transformInput))
            /\ \A e \in batch :
                  codeOf(e) <= 0 =>
                      /\ Persisted(e)
                      /\ \A t \in Range(last.transformInput) : ~SameEventKey(t, e)

\* The node knows no contract at the address of an event: the event is
\* persisted, its contract has code ID 0, and the transformer engine got
\* no event.
C19_Witness ==
    /\ last.status = "ok"
    /\ last.transformInput = << >>
    /\ \E e \in Range(StateEventsOf(last.events)) :
          /\ Persisted(e)
          /\ last.contracts[e.contractAddress].codeId = 0
          /\ last.node[e.contractAddress].kind = "notfound"

\* The last call was made on the events of two records: a write and then a
\* delete of one storage key in one block.
WriteThenDelete ==
    /\ last.status = "ok"
    /\ Len(last.traces) = 2
    /\ last.traces[1].operation = "write"
    /\ last.traces[2].operation = "delete"
    /\ last.traces[1].key = last.traces[2].key
    /\ last.traces[1].blockHeight = last.traces[2].blockHeight
    /\ Match(config.chainId, last.traces[1]).type = "state"
    /\ Match(config.chainId, last.traces[2]).type = "state"

\* The one row of the key of the delete carries the delete.
OneDeletedRow ==
    \E r \in RowsAt(last.wasmStateEvents, Match(config.chainId, last.traces[2])) :
        /\ RowsAt(last.wasmStateEvents, r) = {r}
        /\ CopiesIn(r, last.wasmStateEvents) = 1
        /\ r.delete
        /\ r.valueJson = "null"

\* What match makes of a delete record is a state event with delete = true
\* and valueJson = null, or nothing.
DeleteIsMatchedAsDelete ==
    \A t \in Traces :
        t.operation = "delete" =>
            \E e \in {Match(config.chainId, t)} :
                \/ e = NoMatch
                \/ e.type = "state" /\ e.delete /\ e.valueJson = "null"

C21_MatcherFamilies ==
    last.status # "none" =>
        \A t \in Range(last.traces) :
            \E e \in {Match(config.chainId, t)} :
                /\ e.type = "state" => t.key[1] = CONTRACT_STORE_PREFIX(config.chainId)
                /\ t.key[1] = CONTRACT_KEY_PREFIX(config.chainId) =>
                      \/ e = NoMatch
                      \/ /\ e.type = "contract"
                         /\ t.operation = "write"
                         /\ ~DecodeContractInfo(t.value).threw
                         /\ DecodeContractInfo(t.value).codeId # 0
                /\ t.key[1] \notin {CONTRACT_STORE_PREFIX(config.chainId),
                                    CONTRACT_KEY_PREFIX(config.chainId)} =>
                      e = NoMatch

\* A key is too short for the chain: shorter than prefix and address, or on
\* Terra Classic than prefix, length byte and the length it declares, a key
\* with no length byte included.
TooShort(chainId, keyData) ==
    IF IsTerraClassic(chainId)
    THEN Len(keyData) < 2 \/ Len(keyData) < 2 + keyData[2]
    ELSE Len(keyData) < 1 + DEFAULT_CONTRACT_BYTE_LENGTH

\* C22: of a record of the last batch whose key is too short for the chain,
\* match made nothing.
C22_ShortKeysRejected ==
    last.status # "none" =>
        \A t \in Range(last.traces) :
            TooShort(config.chainId, t.key) => Match(config.chainId, t) = NoMatch

\* C23: a process call on a batch that is not empty, made while the State
\* row is absent, ends in an error: it has not returned, and the
\* WasmStateEvent rows are those of before the call.
C23_MissingStateIsFatal ==
    (last.status # "none" /\ Len(last.events) > 0 /\ Len(last.before.state) = 0) =>
        /\ Threw(last)
        /\ ~Returned(last)
        /\ last.wasmStateEvents = last.before.wasmStateEvents

\* The contract events match makes of the records, on every chain.
MatchedContractEvents ==
    { e \in { Match(cfg.chainId, t) : cfg \in MatchConfigs, t \in Traces } :
          e.type = "contract" }

\* C24: a Contract row whose code ID is > 0 is still there with a code ID
\* > 0 after every step of every behaviour. Every contract event match makes
\* of a record carries a code ID > 0. In a call that went through the two
\* back-fills, the existence back-fill left every row it met as it was, the
\* code IDs were looked up only for rows whose code ID was <= 0, and the
\* code ID back-fill changed only such rows, only to the code ID that was
\* resolved, which is > 0.
C24_KnownCodeIdNeverLost ==
    /\ [][\A a \in DOMAIN contracts :
              contracts[a].codeId > 0 =>
                  a \in DOMAIN contracts' /\ contracts'[a].codeId > 0]_vars
    /\ [](\A e \in MatchedContractEvents : e.codeId > 0)
    /\ []((last.status # "none" /\ "backfillCodeIds" \in Range(last.trace)) =>
              \E met \in {AfterStep("getState")},
                 ensured \in {AfterStep("ensureContracts")},
                 resolved \in {AfterStep("resolveCodeIds")},
                 filled \in {AfterStep("backfillCodeIds")} :
                  /\ \A a \in DOMAIN met.contracts :
                         ensured.contracts[a] = met.contracts[a]
                  /\ \A a \in last.toGetCodeId :
                         ensured.contracts[a].codeId <= 0
                  /\ \A a \in DOMAIN resolved.contracts :
                         filled.contracts[a] # resolved.contracts[a] =>
                             /\ a \in last.toGetCodeId
                             /\ resolved.contracts[a].codeId <= 0
                             /\ filled.contracts[a].codeId = last.codeIds[a]
                             /\ filled.contracts[a].codeId > 0)

\* A call has gone through the back-fills with a state event of a contract
\* whose row had a code ID > 0 and which the node does not know: the row
\* was not looked up and its code ID is as before.
C24_Witness ==
    /\ last.status = "ok"
    /\ \E a \in Range(last.uniqueContracts) \cap DOMAIN last.before.contracts :
          /\ last.before.contracts[a].codeId > 0
          /\ last.node[a].kind # "found"
          /\ a \notin last.toGetCodeId
          /\ contracts[a].codeId = last.before.contracts[a].codeId

====
